---------------------------- MODULE Spec2Model ----------------------------
(***************************************************************************)
(* Label strip builders of the 2-up 4x1 label tool.                        *)
(*                                                                         *)
(*   src/processor.py  build_strip_bytes : N copies, die gap, bleed,       *)
(*                     optional vertical scale-to-fill-bleed               *)
(*   src/app.py        build_two_labels  : two copies, die gap, vertical   *)
(*                     scale percent; and the page that calls it and       *)
(*                     reports the output size                             *)
(*                                                                         *)
(* Python floats are modelled as exact rationals [n, d] in lowest terms,   *)
(* so every equality below is an equality of real numbers; binary rounding *)
(* of the floats is not modelled.  A pypdf Transformation is modelled by   *)
(* the four entries of its matrix that these programs can make non-trivial *)
(* (a = x scale, d = y scale, e = x offset, f = y offset).                 *)
(***************************************************************************)
EXTENDS Integers, Sequences, FiniteSets, TLC

-----------------------------------------------------------------------------
(* Bounds of the model *)

MaxPages == 2

MaxCount == 3

MaxGapSteps == 2

MaxBleedSteps == 2

MaxScalePercent == 2

-----------------------------------------------------------------------------
(* Exact rational arithmetic standing for Python float arithmetic *)

Abs(x) == IF x < 0 THEN -x ELSE x

RECURSIVE GCD(_, _)
GCD(a, b) == IF b = 0 THEN a ELSE GCD(b, a % b)

Rat(num, den) ==
    LET s == IF den < 0 THEN -1 ELSE 1
        g == GCD(Abs(num), Abs(den))
    IN  [n |-> (s * num) \div g, d |-> (s * den) \div g]

R(k) == Rat(k, 1)

Zero == R(0)

RAdd(x, y) == Rat(x.n * y.d + y.n * x.d, x.d * y.d)

RSub(x, y) == Rat(x.n * y.d - y.n * x.d, x.d * y.d)

RMul(x, y) == Rat(x.n * y.n, x.d * y.d)

RDiv(x, y) == Rat(x.n * y.d, x.d * y.n)

RLt(x, y) == x.n * y.d < y.n * x.d

RLe(x, y) == x.n * y.d <= y.n * x.d

-----------------------------------------------------------------------------
(* Program constant *)

POINTS_PER_INCH == 72

-----------------------------------------------------------------------------
(* The documents and arguments the builders are called with *)

Box(l, b, r, t) == [left |-> l, bottom |-> b, right |-> r, top |-> t]

\* A page: its media rectangle and its crop rectangle, <<>> when it has none.
Catalogue ==
    << [mediabox |-> Box(0, 0, 288, 72),    cropbox |-> << >>],
       [mediabox |-> Box(10, 20, 110, 220), cropbox |-> << Box(20, 30, 92, 102) >>],
       [mediabox |-> Box(0, 0, 100, 0),     cropbox |-> << >>],
       [mediabox |-> Box(5, 5, 5, 77),      cropbox |-> << Box(0, 10, 50, 0) >>] >>

DocOf(len, start) ==
    [k \in 1..len |-> Catalogue[((start + k - 2) % Len(Catalogue)) + 1]]

Docs == { DocOf(len, start) : len \in 0..MaxPages, start \in 1..Len(Catalogue) }

PageIndices == -1..MaxPages

Counts == -1..MaxCount

GapInches == { Rat(k, 16) : k \in -1..MaxGapSteps }

BleedInches == { Rat(k, 16) : k \in -1..MaxBleedSteps }

ScalePercents == { R(k) : k \in -1..MaxScalePercent }

-----------------------------------------------------------------------------
(* pypdf.Transformation, restricted to translate and scale *)

Identity == [a |-> R(1), d |-> R(1), e |-> Zero, f |-> Zero]

Translate(t, tx, ty) == [t EXCEPT !.e = RAdd(t.e, tx), !.f = RAdd(t.f, ty)]

Scale(t, sx, sy_) ==
    [a |-> RMul(t.a, sx), d |-> RMul(t.d, sy_),
     e |-> RMul(t.e, sx), f |-> RMul(t.f, sy_)]

ApplyX(t, x) == RAdd(RMul(t.a, x), t.e)

ApplyY(t, y) == RAdd(RMul(t.d, y), t.f)

-----------------------------------------------------------------------------
(* Page selection and box resolution *)

\* PageCheck without the lower bound of the range test.
PageCheck_noLowerBound(nPages, page_index) ==
    IF nPages = 0 THEN "ValueError"
    ELSE IF ~(page_index < nPages) THEN "IndexError"
    ELSE "ok"

\* processor.py 18-21, app.py 42-45: the two checks made on the page list.
PageCheck(nPages, page_index) ==
    IF nPages = 0 THEN "ValueError"
    ELSE IF ~(0 <= page_index /\ page_index < nPages) THEN "IndexError"
    ELSE "ok"

\* reader.pages[page_index]: a Python sequence index (negative counts from the
\* end); only evaluated when the index is within the list.
SelectPage(doc, page_index) ==
    IF page_index < 0 THEN doc[Len(doc) + page_index + 1] ELSE doc[page_index + 1]

_get_box(page, use_cropbox) ==
    IF use_cropbox /\ Len(page.cropbox) > 0 THEN page.cropbox[1] ELSE page.mediabox

\* (llx, lly, width, height) of the chosen box, as floats.
_get_dims(page, use_cropbox) ==
    LET box == _get_box(page, use_cropbox)
        l == R(box.left)   b == R(box.bottom)
        r == R(box.right)  t == R(box.top)
    IN  [llx |-> l, lly |-> b, w |-> RSub(r, l), h |-> RSub(t, b)]

Pts(inches) == RMul(inches, R(POINTS_PER_INCH))

-----------------------------------------------------------------------------
(* build_strip_bytes: the arithmetic of each line *)

\* StripOutH with one gap per copy instead of one gap between copies.
StripOutH_gapPerCopy(count, h, gap, bleed) ==
    RAdd(RAdd(RMul(R(count), h), RMul(R(count), gap)), RMul(R(2), bleed))

StripOutH(count, h, gap, bleed) ==
    RAdd(RAdd(RMul(R(count), h), RMul(R(count - 1), gap)), RMul(R(2), bleed))

\* ScaleY that adds the bleed once instead of twice.
ScaleY_singleBleed(h, bleed) == RDiv(RAdd(h, bleed), h)

ScaleY(h, bleed) == RDiv(RAdd(h, RMul(R(2), bleed)), h)

ScaleBranch(scale_for_bleed, h) == scale_for_bleed /\ RLt(Zero, h)

StripBase(scale_for_bleed, lx, ly, h, bleed) ==
    LET t0 == Translate(Identity, RSub(Zero, lx), RSub(Zero, ly))
    IN  IF ScaleBranch(scale_for_bleed, h)
        THEN Scale(t0, R(1), ScaleY(h, bleed))
        ELSE t0

StripPlacedH(scale_for_bleed, h, bleed) ==
    IF ScaleBranch(scale_for_bleed, h)
    THEN RMul(h, ScaleY(h, bleed))
    ELSE RAdd(h, RMul(R(2), bleed))

\* YCenter that steps by the label height alone.
YCenter_noGap(bleed, k, h, gap) ==
    RAdd(RAdd(bleed, RMul(R(k), h)), RDiv(h, R(2)))

YCenter(bleed, k, h, gap) ==
    RAdd(RAdd(bleed, RMul(R(k), RAdd(h, gap))), RDiv(h, R(2)))

YBottom(y_center, ph) == RSub(y_center, RDiv(ph, R(2)))

-----------------------------------------------------------------------------
(* build_two_labels: the arithmetic of each line *)

Sy(scale_percent) == RAdd(R(1), RDiv(scale_percent, R(100)))

TwoPlacedH(h, s) == RMul(h, s)

Extra(ph, h) == RSub(ph, h)

BottomMargin(ex) == RDiv(ex, R(2))

\* TwoOutH that counts the scaled height once.
TwoOutH_singleHeight(ph, gap) == RAdd(ph, gap)

TwoOutH(ph, gap) == RAdd(RMul(R(2), ph), gap)

TwoBase(lx, ly, s) ==
    Scale(Translate(Identity, RSub(Zero, lx), RSub(Zero, ly)), R(1), s)

Y0(bm) == bm

Y1(bm, h, gap) == RAdd(RAdd(bm, h), gap)

-----------------------------------------------------------------------------
(* The output page *)

NoPage == [created |-> FALSE, width |-> Zero, height |-> Zero, merged |-> << >>]

\* writer.add_blank_page(width, height)
BlankPage(width, height) ==
    [created |-> TRUE, width |-> width, height |-> height, merged |-> << >>]

\* Where the chosen box of the source page lands under t: the images of its
\* lower-left and upper-right corners.
Rendered(t, page, use_cropbox) ==
    LET box == _get_box(page, use_cropbox)
    IN  [x_lo |-> ApplyX(t, R(box.left)),  y_lo |-> ApplyY(t, R(box.bottom)),
         x_hi |-> ApplyX(t, R(box.right)), y_hi |-> ApplyY(t, R(box.top))]

\* out_page.merge_transformed_page(src, t)
Merge(page_, t, src, use_cropbox) ==
    [page_ EXCEPT !.merged = Append(@, Rendered(t, src, use_cropbox))]

-----------------------------------------------------------------------------
(* The page that reports the output size (app.py 135-142) *)

\* "%.4f" of a float: the number of ten-thousandths nearest to it, ties to even.
Fmt4(x) ==
    LET num == x.n * 10000
        q == num \div x.d
        rem == num % x.d
    IN  IF 2 * rem > x.d THEN q + 1
        ELSE IF 2 * rem < x.d THEN q
        ELSE IF q % 2 = 0 THEN q ELSE q + 1

ReportedHeightIn(h, gap_in, scale_percent) ==
    LET s == RAdd(R(1), RDiv(scale_percent, R(100)))
        extra_height == RMul(RSub(s, R(1)), h)
    IN  RDiv(RAdd(RAdd(RMul(R(2), h), RMul(gap_in, R(72))), extra_height), R(72))

ReportedWidthIn(w) == RDiv(w, R(72))

NoMsg == [kind |-> "none", w |-> 0, h |-> 0]

-----------------------------------------------------------------------------
(* State *)

VARIABLES
    pc,             \* position: idle, check, dims, page, base, merge, write, report, done
    fn,             \* the builder running: "none", "strip" (build_strip_bytes), "two" (build_two_labels)
    caller,         \* "direct" or "ui" (the Build button of app.py)
    args,           \* the arguments of the call
    outcome,        \* "none", "bytes" (returned), "ValueError", "IndexError" (raised)
    out_page,       \* the page added to the writer and the copies merged on it
    llx, lly, w_pts, h_pts,
    gap_pts, bleed_pts,
    out_w, out_h,
    base_t,         \* base_t of build_strip_bytes, base of build_two_labels
    placed_h,
    i,              \* loop index of build_strip_bytes; number of merges done in build_two_labels
    sy, extra, bottom_margin, y0, y1,
    ui              \* what the page shows after the build: success with the size, or the error

inputs == <<fn, caller, args>>

dims == <<llx, lly, w_pts, h_pts, gap_pts, bleed_pts, out_w, out_h>>

two_scale == <<sy, extra, bottom_margin>>

two_pos == <<y0, y1>>

vars == <<pc, fn, caller, args, outcome, out_page, llx, lly, w_pts, h_pts,
          gap_pts, bleed_pts, out_w, out_h, base_t, placed_h, i,
          sy, extra, bottom_margin, y0, y1, ui>>

NoArgs ==
    [pdf |-> << >>, page_index |-> 0, count |-> 0, die_gap_in |-> Zero,
     bleed_in |-> Zero, use_cropbox |-> FALSE, scale_for_bleed |-> FALSE,
     scale_percent |-> Zero]

\* Nothing is running and no local has a value yet.
Fresh ==
    /\ outcome = "none"
    /\ out_page = NoPage
    /\ llx = Zero /\ lly = Zero /\ w_pts = Zero /\ h_pts = Zero
    /\ gap_pts = Zero /\ bleed_pts = Zero
    /\ out_w = Zero /\ out_h = Zero
    /\ base_t = Identity
    /\ placed_h = Zero
    /\ i = 0
    /\ sy = Zero /\ extra = Zero /\ bottom_margin = Zero
    /\ y0 = Zero /\ y1 = Zero
    /\ ui = NoMsg

Init ==
    /\ pc = "idle"
    /\ fn = "none"
    /\ caller = "direct"
    /\ args = NoArgs
    /\ Fresh

src == SelectPage(args.pdf, args.page_index)

-----------------------------------------------------------------------------
(* Calls *)

\* build_strip_bytes(pdf_bytes, page_index, count, die_gap_in, bleed_in,
\*                   use_cropbox, scale_for_bleed)
CallStrip ==
    /\ pc = "idle"
    /\ \E doc \in Docs, idx \in PageIndices, cnt \in Counts, g \in GapInches,
          b \in BleedInches, crop \in BOOLEAN, sc \in BOOLEAN :
          args' = [pdf |-> doc, page_index |-> idx, count |-> cnt,
                   die_gap_in |-> g, bleed_in |-> b, use_cropbox |-> crop,
                   scale_for_bleed |-> sc, scale_percent |-> Zero]
    /\ fn' = "strip"
    /\ caller' = "direct"
    /\ pc' = "check"
    /\ UNCHANGED <<outcome, out_page, dims, base_t, placed_h, i, two_scale, two_pos, ui>>

\* build_two_labels(pdf_bytes, page_index, die_gap_in, scale_percent, use_cropbox)
CallTwo ==
    /\ pc = "idle"
    /\ \E doc \in Docs, idx \in PageIndices, g \in GapInches,
          p \in ScalePercents, crop \in BOOLEAN :
          args' = [pdf |-> doc, page_index |-> idx, count |-> 2,
                   die_gap_in |-> g, bleed_in |-> Zero, use_cropbox |-> crop,
                   scale_for_bleed |-> FALSE, scale_percent |-> p]
    /\ fn' = "two"
    /\ caller' = "direct"
    /\ pc' = "check"
    /\ UNCHANGED <<outcome, out_page, dims, base_t, placed_h, i, two_scale, two_pos, ui>>

\* app.py 87-133: a PDF is uploaded, the inputs are set within the limits of
\* their widgets (gap >= 0, scale >= 0, page within the document) and the
\* Build button is pressed.
UIBuild ==
    /\ pc = "idle"
    /\ \E doc \in Docs, g \in GapInches, p \in ScalePercents, crop \in BOOLEAN :
          /\ Len(doc) > 0
          /\ RLe(Zero, g)
          /\ RLe(Zero, p)
          /\ \E idx \in 0..(Len(doc) - 1) :
                /\ Len(doc) <= 1 => idx = 0
                /\ args' = [pdf |-> doc, page_index |-> idx, count |-> 2,
                            die_gap_in |-> g, bleed_in |-> Zero, use_cropbox |-> crop,
                            scale_for_bleed |-> FALSE, scale_percent |-> p]
    /\ fn' = "two"
    /\ caller' = "ui"
    /\ pc' = "check"
    /\ UNCHANGED <<outcome, out_page, dims, base_t, placed_h, i, two_scale, two_pos, ui>>

-----------------------------------------------------------------------------
(* Steps shared by the two builders: the page checks and the blank page *)

\* processor.py 17-21, app.py 41-45
CheckPages ==
    /\ pc = "check"
    /\ LET r == PageCheck(Len(args.pdf), args.page_index)
       IN  IF r = "ok"
           THEN /\ pc' = "dims"
                /\ UNCHANGED outcome
           ELSE /\ outcome' = r
                /\ pc' = IF caller = "ui" THEN "report" ELSE "done"
    /\ UNCHANGED <<inputs, out_page, dims, base_t, placed_h, i, two_scale, two_pos, ui>>

\* processor.py 31-32, app.py 60-61
AddBlankPage ==
    /\ pc = "page"
    /\ out_page' = BlankPage(out_w, out_h)
    /\ pc' = "base"
    /\ UNCHANGED <<inputs, outcome, dims, base_t, placed_h, i, two_scale, two_pos, ui>>

\* processor.py 49-51, app.py 77-79
WriteBytes ==
    /\ pc = "write"
    /\ outcome' = "bytes"
    /\ pc' = IF caller = "ui" THEN "report" ELSE "done"
    /\ UNCHANGED <<inputs, out_page, dims, base_t, placed_h, i, two_scale, two_pos, ui>>

-----------------------------------------------------------------------------
(* build_strip_bytes *)

\* processor.py 23-29
StripDims ==
    /\ pc = "dims" /\ fn = "strip"
    /\ LET d == _get_dims(src, args.use_cropbox)
           g == Pts(args.die_gap_in)
           b == Pts(args.bleed_in)
       IN  /\ llx' = d.llx /\ lly' = d.lly /\ w_pts' = d.w /\ h_pts' = d.h
           /\ gap_pts' = g
           /\ bleed_pts' = b
           /\ out_w' = d.w
           /\ out_h' = StripOutH(args.count, d.h, g, b)
    /\ pc' = "page"
    /\ UNCHANGED <<inputs, outcome, out_page, base_t, placed_h, i, two_scale, two_pos, ui>>

\* processor.py 34-41
StripScale ==
    /\ pc = "base" /\ fn = "strip"
    /\ base_t' = StripBase(args.scale_for_bleed, llx, lly, h_pts, bleed_pts)
    /\ placed_h' = StripPlacedH(args.scale_for_bleed, h_pts, bleed_pts)
    /\ pc' = "merge"
    /\ UNCHANGED <<inputs, outcome, out_page, dims, i, two_scale, two_pos, ui>>

\* processor.py 43-47: one pass of the loop body
StripMerge ==
    /\ pc = "merge" /\ fn = "strip"
    /\ i < args.count
    /\ LET y_center == YCenter(bleed_pts, i, h_pts, gap_pts)
           y_bottom == YBottom(y_center, placed_h)
           t == Translate(base_t, Zero, y_bottom)
       IN  out_page' = Merge(out_page, t, src, args.use_cropbox)
    /\ i' = i + 1
    /\ UNCHANGED <<pc, inputs, outcome, dims, base_t, placed_h, two_scale, two_pos, ui>>

\* processor.py 43: range(count) is exhausted
StripLoopEnd ==
    /\ pc = "merge" /\ fn = "strip"
    /\ ~(i < args.count)
    /\ pc' = "write"
    /\ UNCHANGED <<inputs, outcome, out_page, dims, base_t, placed_h, i, two_scale, two_pos, ui>>

-----------------------------------------------------------------------------
(* build_two_labels *)

\* app.py 47-58
TwoDims ==
    /\ pc = "dims" /\ fn = "two"
    /\ LET d == _get_dims(src, args.use_cropbox)
           g == Pts(args.die_gap_in)
           s == Sy(args.scale_percent)
           ph == TwoPlacedH(d.h, s)
           ex == Extra(ph, d.h)
       IN  /\ llx' = d.llx /\ lly' = d.lly /\ w_pts' = d.w /\ h_pts' = d.h
           /\ gap_pts' = g
           /\ sy' = s
           /\ placed_h' = ph
           /\ extra' = ex
           /\ bottom_margin' = BottomMargin(ex)
           /\ out_w' = d.w
           /\ out_h' = TwoOutH(ph, g)
    /\ pc' = "page"
    /\ UNCHANGED <<inputs, outcome, out_page, bleed_pts, base_t, i, two_pos, ui>>

\* app.py 63-68
TwoPositions ==
    /\ pc = "base" /\ fn = "two"
    /\ base_t' = TwoBase(llx, lly, sy)
    /\ y0' = Y0(bottom_margin)
    /\ y1' = Y1(bottom_margin, h_pts, gap_pts)
    /\ pc' = "merge"
    /\ UNCHANGED <<inputs, outcome, out_page, dims, placed_h, i, two_scale, ui>>

\* app.py 71, 74
TwoMergeFirst ==
    /\ pc = "merge" /\ fn = "two"
    /\ i = 0
    /\ out_page' = Merge(out_page, Translate(base_t, Zero, y0), src, args.use_cropbox)
    /\ i' = 1
    /\ UNCHANGED <<pc, inputs, outcome, dims, base_t, placed_h, two_scale, two_pos, ui>>

\* app.py 72, 75
TwoMergeSecond ==
    /\ pc = "merge" /\ fn = "two"
    /\ i = 1
    /\ out_page' = Merge(out_page, Translate(base_t, Zero, y1), src, args.use_cropbox)
    /\ i' = 2
    /\ pc' = "write"
    /\ UNCHANGED <<inputs, outcome, dims, base_t, placed_h, two_scale, two_pos, ui>>

-----------------------------------------------------------------------------
(* The page after the build *)

\* app.py 126-145: after build_two_labels returns the size is reported; an
\* exception it raised is shown instead.
UIReport ==
    /\ pc = "report"
    /\ IF outcome = "bytes"
       THEN LET d == _get_dims(src, args.use_cropbox)
            IN  ui' = [kind |-> "success",
                       w |-> Fmt4(ReportedWidthIn(d.w)),
                       h |-> Fmt4(ReportedHeightIn(d.h, args.die_gap_in,
                                                   args.scale_percent))]
       ELSE ui' = [kind |-> "error", w |-> 0, h |-> 0]
    /\ pc' = "done"
    /\ UNCHANGED <<inputs, outcome, out_page, dims, base_t, placed_h, i, two_scale, two_pos>>

\* app.py 99-105: the uploaded document has no page; reader.pages[0] raises
\* outside the try block and no build is started.
UIUploadEmpty ==
    /\ pc = "idle"
    /\ \E doc \in Docs :
          /\ Len(doc) = 0
          /\ args' = [NoArgs EXCEPT !.pdf = doc]
    /\ caller' = "ui"
    /\ ui' = [kind |-> "crash", w |-> 0, h |-> 0]
    /\ pc' = "done"
    /\ UNCHANGED <<fn, outcome, out_page, dims, base_t, placed_h, i, two_scale, two_pos>>

\* The call is over; its locals are gone and the next call starts afresh.
Return ==
    /\ pc = "done"
    /\ pc' = "idle"
    /\ fn' = "none"
    /\ caller' = "direct"
    /\ args' = NoArgs
    /\ outcome' = "none"
    /\ out_page' = NoPage
    /\ llx' = Zero /\ lly' = Zero /\ w_pts' = Zero /\ h_pts' = Zero
    /\ gap_pts' = Zero /\ bleed_pts' = Zero
    /\ out_w' = Zero /\ out_h' = Zero
    /\ base_t' = Identity
    /\ placed_h' = Zero
    /\ i' = 0
    /\ sy' = Zero /\ extra' = Zero /\ bottom_margin' = Zero
    /\ y0' = Zero /\ y1' = Zero
    /\ ui' = NoMsg

Next ==
    \/ CallStrip
    \/ CallTwo
    \/ UIBuild
    \/ CheckPages
    \/ AddBlankPage
    \/ WriteBytes
    \/ StripDims
    \/ StripScale
    \/ StripMerge
    \/ StripLoopEnd
    \/ TwoDims
    \/ TwoPositions
    \/ TwoMergeFirst
    \/ TwoMergeSecond
    \/ UIReport
    \/ UIUploadEmpty
    \/ Return

Spec == Init /\ [][Next]_vars

-----------------------------------------------------------------------------
(* Vocabulary of the properties *)

Running == fn \in {"strip", "two"}

\* The call names a page of the document.
HasSrc == 0 <= args.page_index /\ args.page_index < Len(args.pdf)

\* Width and height of the resolved source box.
BoxW == _get_dims(src, args.use_cropbox).w

BoxH == _get_dims(src, args.use_cropbox).h

\* The requested gap and bleed, in points.
GapReq == RMul(args.die_gap_in, R(72))

BleedReq == RMul(args.bleed_in, R(72))

\* The added height build_two_labels asks for: h * scale_percent / 100.
ExtraReq == RDiv(RMul(BoxH, args.scale_percent), R(100))

Copies == out_page.merged

Mid(m) == RDiv(RAdd(m.y_lo, m.y_hi), R(2))

Height(m) == RSub(m.y_hi, m.y_lo)

\* Bottom edge of the k-th die slot (k = 1 is the lowest) above a margin.
SlotBottom(margin, k) == RAdd(margin, RMul(R(k - 1), RAdd(BoxH, GapReq)))

\* The die of a rendered copy: height BoxH about the copy's midpoint.
DieBottom(m) == RSub(Mid(m), RDiv(BoxH, R(2)))

DieTop(m) == RAdd(Mid(m), RDiv(BoxH, R(2)))

\* The arguments are within the ranges the builders are specified for.
ValidSpec ==
    /\ RLe(Zero, args.die_gap_in)
    /\ RLe(Zero, args.bleed_in)
    /\ RLe(Zero, args.scale_percent)

-----------------------------------------------------------------------------
(* C1: in both builders the die gap is exact.  Taking the die of a copy to  *)
(* be the interval of height h_pts about the midpoint of the rendered copy, *)
(* the bottom of die k+1 minus the top of die k is die_gap_in * 72 for      *)
(* every adjacent pair, whatever the bleed and the scale.                   *)
C1_DieGapExact ==
    (Running /\ HasSrc /\ ValidSpec /\ RLt(Zero, BoxH)) =>
        \A k \in 1..(Len(Copies) - 1) :
            RSub(DieBottom(Copies[k + 1]), DieTop(Copies[k])) = GapReq

C1_Witness ==
    /\ fn = "strip" /\ HasSrc /\ ValidSpec /\ RLt(Zero, BoxH)
    /\ args.scale_for_bleed
    /\ RLt(Zero, args.bleed_in) /\ RLt(Zero, args.die_gap_in)
    /\ Len(Copies) = 3
    /\ RSub(DieBottom(Copies[3]), DieTop(Copies[2])) = GapReq

(* C2: with scale_for_bleed and h_pts > 0, every copy of build_strip_bytes  *)
(* is h_pts + 2*bleed_pts high, centred on its die centre, and so reaches   *)
(* exactly bleed_pts below and above its die.                               *)
C2_FillBleedExact ==
    (fn = "strip" /\ HasSrc /\ args.scale_for_bleed /\ RLt(Zero, BoxH)) =>
        \A k \in 1..Len(Copies) :
            LET m == Copies[k]
                die_lo == SlotBottom(BleedReq, k)
                die_hi == RAdd(die_lo, BoxH)
            IN  /\ Height(m) = RAdd(BoxH, RMul(R(2), BleedReq))
                /\ Mid(m) = RAdd(die_lo, RDiv(BoxH, R(2)))
                /\ RSub(die_lo, m.y_lo) = BleedReq
                /\ RSub(m.y_hi, die_hi) = BleedReq

C2_Witness ==
    /\ fn = "strip" /\ HasSrc /\ args.scale_for_bleed /\ RLt(Zero, BoxH)
    /\ RLt(Zero, args.bleed_in)
    /\ Len(Copies) >= 2
    /\ Height(Copies[2]) = RAdd(BoxH, RMul(R(2), BleedReq))

(* C3: without scaling, build_strip_bytes leaves bleed_pts of canvas below  *)
(* and above the die stack: copy k is h_pts high with its midpoint at       *)
(* bleed_pts + (k-1)*(h_pts + gap_pts) + h_pts/2, the lowest copy starts at *)
(* bleed_pts and the highest ends at out_h - bleed_pts.                     *)
C3_UnscaledBleedMargins ==
    (fn = "strip" /\ HasSrc /\ ValidSpec /\ ~args.scale_for_bleed /\ RLt(Zero, BoxH)) =>
        \A k \in 1..Len(Copies) :
            LET m == Copies[k]
            IN  /\ Height(m) = BoxH
                /\ Mid(m) = RAdd(SlotBottom(BleedReq, k), RDiv(BoxH, R(2)))
                /\ k = 1 => m.y_lo = BleedReq
                /\ k = args.count => m.y_hi = RSub(out_page.height, BleedReq)

(* C4: build_two_labels scales each label about its centre: the midpoint of *)
(* copy k is the midpoint of its die slot, whose bottom edge is             *)
(* bottom_margin + (k-1)*(h_pts + gap_pts), with bottom_margin = extra/2.   *)
C4_TwoLabelsScaleAboutCenter ==
    (fn = "two" /\ HasSrc /\ ValidSpec) =>
        \A k \in 1..Len(Copies) :
            Mid(Copies[k]) =
                RAdd(SlotBottom(RDiv(ExtraReq, R(2)), k), RDiv(BoxH, R(2)))

(* C5: no copy is clipped: after every merge each copy merged so far lies   *)
(* within [0, out_w] x [0, out_h] of the page it was merged on.             *)
C5_NoCopyClipped ==
    (Running /\ HasSrc /\ ValidSpec /\ RLt(Zero, BoxH)) =>
        \A k \in 1..Len(Copies) :
            LET m == Copies[k]
            IN  /\ RLe(Zero, m.y_lo)
                /\ RLe(m.y_lo, m.y_hi)
                /\ RLe(m.y_hi, out_page.height)
                /\ RLe(Zero, m.x_lo)
                /\ RLe(m.x_hi, out_page.width)

C5_Witness ==
    /\ fn = "two" /\ HasSrc /\ ValidSpec /\ RLt(Zero, BoxH)
    /\ RLt(Zero, args.scale_percent)
    /\ Len(Copies) = 2
    /\ RLt(Height(Copies[2]), out_page.height)
    /\ RLt(BoxH, Height(Copies[2]))

(* C6: the page build_strip_bytes creates is w_pts wide and                 *)
(* count*h_pts + (count-1)*gap_pts + 2*bleed_pts high, with or without      *)
(* scaling; two copies of a 200 pt box 9 pt apart with no bleed give 409.   *)
C6_StripCanvasSize ==
    (fn = "strip" /\ HasSrc /\ ValidSpec /\ args.count >= 1 /\ out_page.created) =>
        /\ out_page.width = BoxW
        /\ out_page.height =
              RAdd(RMul(R(args.count), BoxH),
                   RAdd(RMul(R(args.count - 1), GapReq), RAdd(BleedReq, BleedReq)))
        /\ (args.count = 2 /\ BoxH = R(200) /\ GapReq = R(9) /\ BleedReq = Zero)
               => out_page.height = R(409)

C6_Witness ==
    /\ fn = "strip" /\ HasSrc /\ out_page.created
    /\ args.count = 2 /\ BoxH = R(200) /\ GapReq = R(9) /\ BleedReq = Zero
    /\ ~args.scale_for_bleed
    /\ out_page.height = R(409)
    /\ outcome = "bytes"

(* C7: build_strip_bytes rejects an invalid layout: with count < 1, a       *)
(* negative gap or a negative bleed it creates no page, merges nothing and  *)
(* returns no bytes.  Stated for a call whose document, page index and    *)
(* source box are valid, so that nothing else can end the build.            *)
C7_InvalidSpecRejected ==
    (fn = "strip" /\ HasSrc /\ RLt(Zero, BoxW) /\ RLt(Zero, BoxH)
        /\ (args.count < 1 \/ RLt(args.die_gap_in, Zero) \/ RLt(args.bleed_in, Zero))) =>
        /\ ~out_page.created
        /\ Copies = << >>
        /\ outcome # "bytes"

(* C8: a source box of width <= 0 or height <= 0 fails the build: no copy   *)
(* is merged and no bytes are returned (in particular for scale_for_bleed   *)
(* with h_pts = 0, which must not go on unscaled).  Stated for a call      *)
(* whose layout arguments are valid.                                        *)
C8_DegenerateBoxFails ==
    (Running /\ HasSrc /\ ValidSpec /\ args.count >= 1
        /\ (RLe(BoxW, Zero) \/ RLe(BoxH, Zero))) =>
        /\ Copies = << >>
        /\ outcome # "bytes"

(* C9: a document without pages ends in ValueError, a page index outside    *)
(* the document in IndexError, both before a page is created or a copy      *)
(* merged; a valid index on a document with pages raises neither.           *)
C9_PageSelectionErrors ==
    Running =>
        LET n == Len(args.pdf)
            untouched == ~out_page.created /\ Copies = << >>
        IN  /\ pc = "check" => (outcome = "none" /\ untouched)
            /\ (pc # "check" /\ n = 0) => (outcome = "ValueError" /\ untouched)
            /\ (pc # "check" /\ n > 0 /\ ~HasSrc) => (outcome = "IndexError" /\ untouched)
            /\ (n > 0 /\ HasSrc) => outcome \in {"none", "bytes"}
            /\ (n > 0 /\ HasSrc /\ pc = "done") => outcome = "bytes"

C9_Witness ==
    /\ fn = "two"
    /\ Len(args.pdf) > 0 /\ ~HasSrc
    /\ outcome = "IndexError"
    /\ ~out_page.created
    /\ pc = "done"

(* C10: the size reported after a successful build is the size of the page  *)
(* that was built.                                                          *)
C10_ReportedSizeIsBuiltSize ==
    ui.kind = "success" =>
        /\ ui.h = Fmt4(RDiv(out_page.height, R(72)))
        /\ ui.w = Fmt4(RDiv(out_page.width, R(72)))

=============================================================================
